---- MODULE Spec2Model ----
(***************************************************************************)
(* Model of the SF crime portfolio pipeline:                               *)
(*   src/src/build_dashboard_artifacts.py  the batch builder (main)        *)
(*   src/dashboard/app.py                  the Streamlit dashboard script  *)
(*                                                                         *)
(* Spec      one run of either program (prog chosen in Init): the builder  *)
(*           with a concurrent reader of its output file, or one script    *)
(*           run of the dashboard.                                         *)
(* SpecLoad  the three loader functions of the dashboard and the citywide  *)
(*           monthly aggregation, applied to tables drawn in Init.         *)
(***************************************************************************)
EXTENDS Integers, Sequences, FiniteSets, TLC

VARIABLES
    prog,             \* "builder" | "dashboard" | "load"
    pc,               \* position in the running program
    exists,           \* file name -> BOOLEAN: Path.exists() of the input files
    outFile,          \* what sits under OUT_MONTHLY_NBH_CAT: absent | old | partial | new
    readerSaw,        \* what a concurrent reader found under OUT_MONTHLY_NBH_CAT
    existChecked,     \* files whose existence the program has tested
    readAttempted,    \* files handed to pd.read_parquet
    validated,        \* files whose required columns have been checked
    notFound,         \* files the program reported as not found
    err,              \* the exception / st.error of the run: [kind, file, cols]
    df,               \* builder: df.columns and len(df) after read_parquet
    rawTime,          \* builder: the raw cells of the time source column
    rawRows,          \* builder: the raw cells of year, neighborhood, incident_category
    ym,               \* builder: the ym series (lines 23-30)
    norm,             \* builder: df after lines 32-36
    monthly_nbh_cat,  \* builder: the aggregated table (lines 38-44)
    input,            \* loaders: the table in the parquet file being loaded
    monthly_df,       \* dashboard: load_monthly's result
    hourly_df,        \* dashboard: load_hourly_weekday's result
    fc,               \* dashboard: load_forecast's result
    sel,              \* dashboard: the sidebar selection
    monthly_filt,     \* dashboard: monthly_df under the selection
    city_monthly,     \* dashboard: tab 1 series
    hist_citywide,    \* dashboard: tab 3 series
    rendered          \* dashboard: the tabs whose body ran to its end

vars == <<prog, pc, exists, outFile, readerSaw, existChecked, readAttempted,
          validated, notFound, err, df, rawTime, rawRows, ym, norm,
          monthly_nbh_cat, input, monthly_df, hourly_df, fc, sel, monthly_filt,
          city_monthly, hist_citywide, rendered>>

builderVars == <<df, rawTime, rawRows, ym, norm, monthly_nbh_cat>>
dashVars == <<input, monthly_df, hourly_df, fc, sel, monthly_filt, city_monthly,
              hist_citywide, rendered>>
fileVars == <<existChecked, readAttempted, validated, notFound>>

(***************************************************************************)
(* Bounds                                                                  *)
(***************************************************************************)
\* rows of the builder's input table
MaxRows == 2
\* rows of a table handed to a loader function
MaxLoadRows == 3
\* rows of each artifact in a whole dashboard run
MaxDashRows == 2

(***************************************************************************)
(* Files                                                                   *)
(***************************************************************************)
INCIDENTS_FILE == "incidents_clean_2018_2025.parquet"
OUT_MONTHLY_NBH_CAT == "monthly_neighborhood_category.parquet"
MONTHLY_FILE == "monthly_citywide.parquet"
HOURLY_WEEKDAY_FILE == "hourly_weekday_counts.parquet"
FORECAST_FILE == "forecast_citywide_monthly_2026.parquet"

InputFiles == {INCIDENTS_FILE, MONTHLY_FILE, HOURLY_WEEKDAY_FILE, FORECAST_FILE}

\* a program that skips the existence test
FileAlwaysExists(f) == TRUE

\* Path.exists()
FileExists(f) == exists[f]

(***************************************************************************)
(* Cells.  A raw numeric cell is text that does not parse, or a number     *)
(* kept in halves (v2 = twice the value) so that 23.5 or 2023.5 can stand  *)
(* in a column.  A raw time cell is text that does not parse, or a date.   *)
(***************************************************************************)
NA == "<NA>"

NaN == [na |-> TRUE, v2 |-> 0]
NaT == [na |-> TRUE, yr |-> 0, mo |-> 0, day |-> 0]

RawText == [text |-> TRUE, v2 |-> 0]
RawNum(v2) == [text |-> FALSE, v2 |-> v2]
RawInt(v) == RawNum(2 * v)

RawBadTime == [text |-> TRUE, yr |-> 0, mo |-> 0, day |-> 0]
RawDate(y, m, d) == [text |-> FALSE, yr |-> y, mo |-> m, day |-> d]

\* pd.to_datetime(col, errors="coerce")
ToDatetime(c) ==
    IF c.text THEN NaT ELSE [na |-> FALSE, yr |-> c.yr, mo |-> c.mo, day |-> c.day]

\* .dt.to_period("M").dt.to_timestamp(): NaT stays NaT
ToMonthStart(t) == IF t.na THEN NaT ELSE [t EXCEPT !.day = 1]

\* pd.to_numeric(col, errors="coerce")
ToNumeric(c) == IF c.text THEN NaN ELSE [na |-> FALSE, v2 |-> c.v2]

\* .fillna(0)
FillNa0(x) == IF x.na THEN [na |-> FALSE, v2 |-> 0] ELSE x

\* .astype(int) on a float column: truncation toward zero
AsInt(x) == IF x.v2 >= 0 THEN x.v2 \div 2 ELSE -((-x.v2) \div 2)

\* a float that .astype("Int64") refuses: it has a fractional part
IsFractional(x) == ~x.na /\ x.v2 % 2 # 0

\* order of timestamps
TsKey(t) == (t.yr * 12 + t.mo) * 32 + t.day

\* order of Python strings, for the labels and column names the model uses
Alphabetical ==
    <<"Assault", "Bayview", "Mission", "Monday", "Sunday", "Theft",
      "forecast", "hour", "incident_category", "incident_datetime", "incidents",
      "lower", "month", "neighborhood", "upper", "weekday_label", "year",
      "year_month">>

StrOrd(s) == CHOOSE i \in 1..Len(Alphabetical) : Alphabetical[i] = s

\* lexicographic order of equally long tuples of integers
LexLess(a, b) ==
    \E i \in 1..Len(a) : a[i] < b[i] /\ \A j \in 1..(i - 1) : a[j] = b[j]

\* a set of equally long integer tuples as a sequence in ascending order
SortTuples(S) ==
    [p \in 1..Cardinality(S) |->
        CHOOSE x \in S : 1 + Cardinality({y \in S : LexLess(y, x)}) = p]

\* sorted(missing) on a set of column names
SortedNames(S) ==
    LET ks == SortTuples({<<StrOrd(c)>> : c \in S})
    IN  [p \in 1..Len(ks) |-> Alphabetical[ks[p][1]]]

Range(s) == {s[i] : i \in 1..Len(s)}

SeqsUpTo(S, n) == UNION {[1..k -> S] : k \in 0..n}

NoErr == [kind |-> "none", file |-> "", cols |-> <<>>]

(***************************************************************************)
(* The builder: src/src/build_dashboard_artifacts.py, main()               *)
(***************************************************************************)
BuilderCols ==
    {"neighborhood", "incident_category", "year",
     "year_month", "month", "incident_datetime"}

\* required = ["neighborhood", "incident_category", "year"]
BuilderRequired == <<"neighborhood", "incident_category", "year">>

\* the cells the builder's input columns are drawn from
BuilderTimes == {RawDate(2024, 1, 15), RawDate(2024, 2, 1), RawBadTime}
BuilderYears == {RawInt(2023), RawInt(2024), RawNum(2 * 2023 + 1), RawText}
Neighborhoods == {"Bayview", "Mission"}
Categories == {"Assault", "Theft"}
BuilderNbhCells == Neighborhoods
BuilderCatCells == {"Theft", NA}
BuilderRawRows ==
    [year : BuilderYears, neighborhood : BuilderNbhCells,
     incident_category : BuilderCatCells]

\* missing = [c for c in required if c not in df.columns]
BuilderMissing(cols) ==
    LET absent(c) == c \notin cols IN SelectSeq(BuilderRequired, absent)

\* the column the monthly axis is built from (the if/elif chain of lines 23-30)
TimeSource(cols) ==
    IF "year_month" \in cols THEN "year_month"
    ELSE IF "month" \in cols THEN "month"
    ELSE IF "incident_datetime" \in cols THEN "incident_datetime"
    ELSE "none"

\* the ym value of one row, by source column
MonthAxis(src, cell) ==
    IF src = "incident_datetime" THEN ToMonthStart(ToDatetime(cell))
    ELSE ToDatetime(cell)

\* pd.to_numeric(df["year"], errors="coerce").astype("Int64"): NA, or the integer
ToInt64(c) ==
    LET x == ToNumeric(c) IN
    IF x.na THEN [na |-> TRUE, v |-> 0] ELSE [na |-> FALSE, v |-> AsInt(x)]

\* a row survives df.dropna(subset=[year_month, year, neighborhood, incident_category])
Complete(r) ==
    /\ ~r.year_month.na
    /\ ~r.year.na
    /\ r.neighborhood # NA
    /\ r.incident_category # NA

\* the group key of a row, in the order of the groupby list
GroupKey(r) ==
    <<TsKey(r.year_month), r.year, StrOrd(r.neighborhood), StrOrd(r.incident_category)>>

\* the keys of .sort_values(["year_month", "neighborhood", "incident_category"])
SortKey(r) ==
    <<TsKey(r.year_month), StrOrd(r.neighborhood), StrOrd(r.incident_category)>>

\* groupby(..., observed=False) on categorical keys: every combination of the
\* values that occur, whether or not a row carries it
AllGroups(rows) ==
    [year_month : {r.year_month : r \in Range(rows)},
     year : {r.year : r \in Range(rows)},
     neighborhood : {r.neighborhood : r \in Range(rows)},
     incident_category : {r.incident_category : r \in Range(rows)}]

\* the groups of groupby(..., observed=True): the key tuples that occur
ObservedGroups(rows) ==
    {[year_month |-> r.year_month, year |-> r.year, neighborhood |-> r.neighborhood,
      incident_category |-> r.incident_category] : r \in Range(rows)}

\* .groupby([...], observed=True).size().reset_index(name="incidents"):
\* one row per group, in ascending order of the group key
GroupBySize(rows) ==
    LET groups == ObservedGroups(rows)
        ks == SortTuples({GroupKey(g) : g \in groups})
        group(p) == CHOOSE g \in groups : GroupKey(g) = ks[p]
        size(g) == Cardinality({i \in 1..Len(rows) : GroupKey(rows[i]) = GroupKey(g)})
    IN  [p \in 1..Len(ks) |->
            [year_month |-> group(p).year_month, year |-> group(p).year,
             neighborhood |-> group(p).neighborhood,
             incident_category |-> group(p).incident_category,
             incidents |-> size(group(p))]]

\* .sort_values(["year_month", "neighborhood", "incident_category"]): a sort on
\* several columns is a lexsort, which is stable: rows equal on the three
\* columns keep the order the groupby gave them
SortValues(s) ==
    LET n == Len(s)
        pos(i) == 1 + Cardinality({j \in 1..n :
                        \/ LexLess(SortKey(s[j]), SortKey(s[i]))
                        \/ (SortKey(s[j]) = SortKey(s[i]) /\ j < i)})
    IN  [p \in 1..n |-> s[CHOOSE i \in 1..n : pos(i) = p]]

\* lines 38-44
Aggregate(rows) == SortValues(GroupBySize(rows))

\* lines 12-13
B_CheckExists ==
    /\ prog = "builder" /\ pc = "b_exists"
    /\ existChecked' = existChecked \cup {INCIDENTS_FILE}
    /\ IF ~FileExists(INCIDENTS_FILE)
       THEN /\ err' = [kind |-> "FileNotFoundError", file |-> INCIDENTS_FILE, cols |-> <<>>]
            /\ notFound' = notFound \cup {INCIDENTS_FILE}
            /\ pc' = "failed"
       ELSE /\ pc' = "b_read"
            /\ UNCHANGED <<err, notFound>>
    /\ UNCHANGED <<prog, exists, outFile, readerSaw, readAttempted, validated,
                   builderVars, dashVars>>

\* line 15.  The cells of a column are drawn where the builder first reads the
\* column (lines 24-28 and 34-35); the file does not change during the run.
B_ReadParquet ==
    /\ prog = "builder" /\ pc = "b_read"
    /\ readAttempted' = readAttempted \cup {INCIDENTS_FILE}
    /\ IF ~exists[INCIDENTS_FILE]
       THEN /\ err' = [kind |-> "FileNotFoundError", file |-> INCIDENTS_FILE, cols |-> <<>>]
            /\ pc' = "failed"
            /\ df' = df
       ELSE /\ \E cols \in SUBSET BuilderCols, n \in 0..MaxRows :
                  df' = [columns |-> cols, n |-> n]
            /\ pc' = "b_validate"
            /\ err' = err
    /\ UNCHANGED <<prog, exists, outFile, readerSaw, existChecked, validated, notFound,
                   rawTime, rawRows, ym, norm, monthly_nbh_cat, dashVars>>

\* lines 17-20
B_Validate ==
    /\ prog = "builder" /\ pc = "b_validate"
    /\ validated' = validated \cup {INCIDENTS_FILE}
    /\ IF BuilderMissing(df.columns) # <<>>
       THEN /\ err' = [kind |-> "MissingColumns", file |-> INCIDENTS_FILE,
                       cols |-> BuilderMissing(df.columns)]
            /\ pc' = "failed"
       ELSE /\ pc' = "b_axis"
            /\ err' = err
    /\ UNCHANGED <<prog, exists, outFile, readerSaw, existChecked, readAttempted,
                   notFound, builderVars, dashVars>>

\* lines 22-30
B_TimeAxis ==
    /\ prog = "builder" /\ pc = "b_axis"
    /\ IF TimeSource(df.columns) = "none"
       THEN /\ err' = [kind |-> "NoTimeSource", file |-> INCIDENTS_FILE, cols |-> <<>>]
            /\ pc' = "failed"
            /\ UNCHANGED <<rawTime, ym>>
       ELSE /\ \E cells \in [1..df.n -> BuilderTimes] :
                  /\ rawTime' = cells
                  /\ ym' = [i \in 1..df.n |-> MonthAxis(TimeSource(df.columns), cells[i])]
            /\ pc' = "b_normalize"
            /\ err' = err
    /\ UNCHANGED <<prog, exists, outFile, readerSaw, fileVars, df, rawRows, norm,
                   monthly_nbh_cat, dashVars>>

\* lines 32-36
B_Normalize ==
    /\ prog = "builder" /\ pc = "b_normalize"
    /\ \E cells \in [1..df.n -> BuilderRawRows] :
          /\ rawRows' = cells
          /\ IF \E i \in 1..df.n : IsFractional(ToNumeric(cells[i].year))
             THEN /\ err' = [kind |-> "TypeError", file |-> INCIDENTS_FILE, cols |-> <<>>]
                  /\ pc' = "failed"
                  /\ UNCHANGED <<df, norm>>
             ELSE /\ LET rows == [i \in 1..df.n |->
                                    [idx |-> i,
                                     year_month |-> ym[i],
                                     year |-> ToInt64(cells[i].year),
                                     neighborhood |-> cells[i].neighborhood,
                                     incident_category |-> cells[i].incident_category]]
                     IN  norm' = SelectSeq(rows, Complete)
                  /\ df' = [df EXCEPT !.columns = @ \cup {"year_month"}]
                  /\ pc' = "b_aggregate"
                  /\ err' = err
    /\ UNCHANGED <<prog, exists, outFile, readerSaw, fileVars, rawTime, ym,
                   monthly_nbh_cat, dashVars>>

\* lines 38-44
B_Aggregate ==
    /\ prog = "builder" /\ pc = "b_aggregate"
    /\ monthly_nbh_cat' =
          Aggregate([i \in 1..Len(norm) |->
                       [year_month |-> norm[i].year_month, year |-> norm[i].year.v,
                        neighborhood |-> norm[i].neighborhood,
                        incident_category |-> norm[i].incident_category]])
    /\ pc' = "b_write"
    /\ UNCHANGED <<prog, exists, outFile, readerSaw, fileVars, err, df, rawTime,
                   rawRows, ym, norm, dashVars>>

\* line 47, first half: to_parquet opens OUT_MONTHLY_NBH_CAT itself for writing,
\* which creates or truncates the file under its final name
B_WriteOpen ==
    /\ prog = "builder" /\ pc = "b_write"
    /\ outFile' = "partial"
    /\ pc' = "b_writing"
    /\ UNCHANGED <<prog, exists, readerSaw, fileVars, err, builderVars, dashVars>>

\* line 47, second half: the last bytes are written and the file is closed
B_WriteClose ==
    /\ prog = "builder" /\ pc = "b_writing"
    /\ outFile' = "new"
    /\ pc' = "done"
    /\ UNCHANGED <<prog, exists, readerSaw, fileVars, err, builderVars, dashVars>>

\* a consumer process opens the artifact under its final name while the builder
\* runs.  Nothing touches that name before line 47, so an open at any earlier
\* point finds what an open just before line 47 finds.
Reader ==
    /\ prog = "builder" /\ readerSaw = "none"
    /\ pc \in {"b_write", "b_writing", "done"}
    /\ readerSaw' = outFile
    /\ UNCHANGED <<prog, pc, exists, outFile, fileVars, err, builderVars, dashVars>>

BuilderNext ==
    \/ B_CheckExists
    \/ B_ReadParquet
    \/ B_Validate
    \/ B_TimeAxis
    \/ B_Normalize
    \/ B_Aggregate
    \/ B_WriteOpen
    \/ B_WriteClose
    \/ Reader

(***************************************************************************)
(* The dashboard's loaders: src/dashboard/app.py, lines 39-93               *)
(* A table is [columns, rows]; a table that lacks a required column is     *)
(* rejected before any of its rows is read, so it is drawn without rows.   *)
(***************************************************************************)
MonthlyRequired == {"month", "neighborhood", "incident_category", "incidents"}
HourlyRequired == {"weekday_label", "hour", "incident_category", "incidents"}
ForecastRequired == {"month", "forecast", "lower", "upper"}

TablesOf(required, rowSet, n) ==
    {t \in [columns : SUBSET required, rows : SeqsUpTo(rowSet, n)] :
        t.columns = required \/ t.rows = <<>>}

LoadFailed(f, missing) ==
    [ok |-> FALSE,
     err |-> [kind |-> "MissingColumns", file |-> f, cols |-> SortedNames(missing)],
     df |-> <<>>]

Loaded(rows) == [ok |-> TRUE, err |-> NoErr, df |-> rows]

\* load_monthly, lines 40-55
load_monthly(t) ==
    LET missing == MonthlyRequired \ t.columns
        rows == [i \in 1..Len(t.rows) |->
                   [idx |-> i,
                    month |-> ToDatetime(t.rows[i].month),
                    neighborhood |-> t.rows[i].neighborhood,
                    incident_category |-> t.rows[i].incident_category,
                    incidents |-> AsInt(FillNa0(ToNumeric(t.rows[i].incidents))),
                    year |-> ToDatetime(t.rows[i].month).yr]]
        parsed(r) == ~r.month.na
    IN  IF missing # {} THEN LoadFailed(MONTHLY_FILE, missing)
        ELSE Loaded(SelectSeq(rows, parsed))

\* df[(df["hour"] >= 0) & (df["hour"] <= 23)], line 69
HourInRange(r) == r.hour >= 0 /\ r.hour <= 23

\* clamping instead of filtering: df["hour"].clip(0, 23)
HourClip(rows) ==
    [i \in 1..Len(rows) |->
        [rows[i] EXCEPT !.hour = IF @ < 0 THEN 0 ELSE IF @ > 23 THEN 23 ELSE @]]

HourFilter(rows) == SelectSeq(rows, HourInRange)

\* load_hourly_weekday, lines 59-75
load_hourly_weekday(t) ==
    LET missing == HourlyRequired \ t.columns
        rows == [i \in 1..Len(t.rows) |->
                   [idx |-> i,
                    weekday_label |-> t.rows[i].weekday_label,
                    hour |-> AsInt(FillNa0(ToNumeric(t.rows[i].hour))),
                    incident_category |-> t.rows[i].incident_category,
                    incidents |-> AsInt(FillNa0(ToNumeric(t.rows[i].incidents)))]]
    IN  IF missing # {} THEN LoadFailed(HOURLY_WEEKDAY_FILE, missing)
        ELSE Loaded(HourFilter(rows))

\* load_forecast without its sort_values("month")
SortValuesNone(rows) == {rows}

\* the arrangements .sort_values("month") may return: ascending by month; a sort
\* on one column uses quicksort, which fixes no order among equal months
SortValuesMonth(rows) ==
    LET n == Len(rows)
        perms == {p \in [1..n -> 1..n] : \A i, j \in 1..n : i # j => p[i] # p[j]}
    IN  {[k \in 1..n |-> rows[p[k]]] : p \in
            {q \in perms : \A k \in 1..(n - 1) :
                TsKey(rows[q[k]].month) <= TsKey(rows[q[k + 1]].month)}}

\* load_forecast, lines 79-93: the results it may return
load_forecast(t) ==
    LET missing == ForecastRequired \ t.columns
        rows == [i \in 1..Len(t.rows) |->
                   [idx |-> i,
                    month |-> ToDatetime(t.rows[i].month),
                    forecast |-> ToNumeric(t.rows[i].forecast),
                    lower |-> ToNumeric(t.rows[i].lower),
                    upper |-> ToNumeric(t.rows[i].upper)]]
        parsed(r) == ~r.month.na
    IN  IF missing # {} THEN {LoadFailed(FORECAST_FILE, missing)}
        ELSE {Loaded(s) : s \in SortValuesMonth(SelectSeq(rows, parsed))}

\* .first() in place of .sum(): the count of the first row of each month
CitywideMonthlyFirst(rows) ==
    LET ks == SortTuples({<<TsKey(r.month)>> : r \in Range(rows)})
        first(p) == rows[CHOOSE i \in 1..Len(rows) :
                           /\ <<TsKey(rows[i].month)>> = ks[p]
                           /\ \A j \in 1..(i - 1) : <<TsKey(rows[j].month)>> # ks[p]]
    IN  [p \in 1..Len(ks) |-> [month |-> first(p).month, incidents |-> first(p).incidents]]

\* df.groupby("month", as_index=False, observed=True)["incidents"].sum()
\*   .sort_values("month"), lines 238-242 and 340-344
CitywideMonthly(rows) ==
    LET ks == SortTuples({<<TsKey(r.month)>> : r \in Range(rows)})
        month(p) == CHOOSE m \in {r.month : r \in Range(rows)} : <<TsKey(m)>> = ks[p]
        RECURSIVE total(_, _)
        total(m, i) ==
            IF i = 0 THEN 0
            ELSE total(m, i - 1) + (IF rows[i].month = m THEN rows[i].incidents ELSE 0)
    IN  [p \in 1..Len(ks) |->
            [month |-> month(p), incidents |-> total(month(p), Len(rows))]]

\* the sidebar selections the monthly table admits, lines 125-152
Selections(mdf, hdf) ==
    LET years == {r.year : r \in Range(mdf)}
        neighborhoods == {r.neighborhood : r \in Range(mdf)}
        all_categories == {r.incident_category : r \in Range(mdf)}
                            \cup {r.incident_category : r \in Range(hdf)}
    IN  [year_range : {y \in years \X years : y[1] <= y[2]},
         nbhds : SUBSET neighborhoods,
         categories : SUBSET all_categories]

\* monthly_filt, lines 178-182
MonthlyFilt(mdf, s) ==
    LET keep(r) == /\ r.year >= s.year_range[1] /\ r.year <= s.year_range[2]
                   /\ r.neighborhood \in s.nbhds
                   /\ r.incident_category \in s.categories
    IN  SelectSeq(mdf, keep)

(***************************************************************************)
(* The cells the artifacts are drawn from                                  *)
(***************************************************************************)
MonthlyRows ==
    [month : {RawDate(2024, 12, 1), RawDate(2025, 1, 1), RawBadTime},
     neighborhood : Neighborhoods,
     incident_category : {"Theft"},
     incidents : {RawInt(1), RawNum(5), RawText}]

HourlyRows ==
    [weekday_label : {"Monday"},
     hour : {RawInt(-1), RawNum(-1), RawInt(0), RawInt(23), RawNum(47), RawInt(24),
             RawText},
     incident_category : {"Theft"},
     incidents : {RawInt(1), RawText}]

ForecastRows ==
    [month : {RawDate(2026, 1, 1), RawDate(2026, 2, 1), RawDate(2026, 3, 1), RawBadTime},
     forecast : {RawInt(2), RawText},
     lower : {RawInt(1), RawInt(3)},
     upper : {RawInt(3)}]

\* the smaller tables of a whole dashboard run
DashMonthlyRows ==
    [month : {RawDate(2025, 1, 1), RawBadTime},
     neighborhood : Neighborhoods,
     incident_category : {"Theft"},
     incidents : {RawInt(1)}]

DashHourlyRows ==
    [weekday_label : {"Monday"},
     hour : {RawInt(0), RawInt(24)},
     incident_category : Categories,
     incidents : {RawInt(1)}]

DashForecastRows ==
    [month : {RawDate(2026, 1, 1), RawBadTime},
     forecast : {RawInt(2)},
     lower : {RawInt(1), RawInt(3)},
     upper : {RawInt(3)}]

(***************************************************************************)
(* One script run of the dashboard: src/dashboard/app.py, lines 99-404     *)
(***************************************************************************)
\* missing_files = [p for p in [MONTHLY_FILE, HOURLY_WEEKDAY_FILE] if not p.exists()]
MissingFiles == {p \in {MONTHLY_FILE, HOURLY_WEEKDAY_FILE} : ~FileExists(p)}

\* lines 99-110
D_ExistenceChecks ==
    /\ prog = "dashboard" /\ pc = "d_exists"
    /\ existChecked' = existChecked \cup {MONTHLY_FILE, HOURLY_WEEKDAY_FILE}
    /\ IF MissingFiles # {}
       THEN /\ notFound' = notFound \cup MissingFiles
            /\ pc' = "stopped"
       ELSE /\ pc' = "d_load_monthly"
            /\ notFound' = notFound
    /\ UNCHANGED <<prog, exists, outFile, readerSaw, readAttempted, validated, err,
                   builderVars, dashVars>>

\* lines 112-113 and the except of 115-117
D_LoadMonthly ==
    /\ prog = "dashboard" /\ pc = "d_load_monthly"
    /\ readAttempted' = readAttempted \cup {MONTHLY_FILE}
    /\ IF ~exists[MONTHLY_FILE]
       THEN /\ err' = [kind |-> "FileNotFoundError", file |-> MONTHLY_FILE, cols |-> <<>>]
            /\ pc' = "stopped"
            /\ UNCHANGED <<validated, monthly_df>>
       ELSE \E t \in TablesOf(MonthlyRequired, DashMonthlyRows, MaxDashRows) :
              /\ validated' = validated \cup {MONTHLY_FILE}
              /\ err' = load_monthly(t).err
              /\ monthly_df' = load_monthly(t).df
              /\ pc' = IF load_monthly(t).ok THEN "d_load_hourly" ELSE "stopped"
    /\ UNCHANGED <<prog, exists, outFile, readerSaw, existChecked, notFound,
                   builderVars, input, hourly_df, fc, sel, monthly_filt, city_monthly,
                   hist_citywide, rendered>>

\* line 114 and the except of 115-117
D_LoadHourly ==
    /\ prog = "dashboard" /\ pc = "d_load_hourly"
    /\ readAttempted' = readAttempted \cup {HOURLY_WEEKDAY_FILE}
    /\ IF ~exists[HOURLY_WEEKDAY_FILE]
       THEN /\ err' = [kind |-> "FileNotFoundError", file |-> HOURLY_WEEKDAY_FILE,
                       cols |-> <<>>]
            /\ pc' = "stopped"
            /\ UNCHANGED <<validated, hourly_df>>
       ELSE \E t \in TablesOf(HourlyRequired, DashHourlyRows, MaxDashRows) :
              /\ validated' = validated \cup {HOURLY_WEEKDAY_FILE}
              /\ err' = load_hourly_weekday(t).err
              /\ hourly_df' = load_hourly_weekday(t).df
              /\ pc' = IF load_hourly_weekday(t).ok THEN "d_sidebar" ELSE "stopped"
    /\ UNCHANGED <<prog, exists, outFile, readerSaw, existChecked, notFound,
                   builderVars, input, monthly_df, fc, sel, monthly_filt, city_monthly,
                   hist_citywide, rendered>>

\* lines 123-218: the sidebar, the filters and the metrics.  min(years) of line
\* 126 raises ValueError when no monthly row has a month that parses.
D_Sidebar ==
    /\ prog = "dashboard" /\ pc = "d_sidebar"
    /\ IF monthly_df = <<>>
       THEN /\ err' = [kind |-> "ValueError", file |-> "", cols |-> <<>>]
            /\ pc' = "crashed"
            /\ UNCHANGED <<sel, monthly_filt>>
       ELSE /\ \E s \in Selections(monthly_df, hourly_df) :
                  /\ sel' = s
                  /\ monthly_filt' = MonthlyFilt(monthly_df, s)
            /\ pc' = "d_tab1"
            /\ err' = err
    /\ UNCHANGED <<prog, exists, outFile, readerSaw, fileVars, builderVars, input,
                   monthly_df, hourly_df, fc, city_monthly, hist_citywide, rendered>>

\* lines 232-270
D_Tab1 ==
    /\ prog = "dashboard" /\ pc = "d_tab1"
    /\ city_monthly' = IF Len(monthly_filt) = 0 THEN <<>>
                       ELSE CitywideMonthly(monthly_filt)
    /\ rendered' = rendered \cup {"Trends"}
    /\ pc' = "d_tab2"
    /\ UNCHANGED <<prog, exists, outFile, readerSaw, fileVars, err, builderVars, input,
                   monthly_df, hourly_df, fc, sel, monthly_filt, hist_citywide>>

\* lines 276-317
D_Tab2 ==
    /\ prog = "dashboard" /\ pc = "d_tab2"
    /\ rendered' = rendered \cup {"HourWeekday"}
    /\ pc' = "d_tab3"
    /\ UNCHANGED <<prog, exists, outFile, readerSaw, fileVars, err, builderVars, input,
                   monthly_df, hourly_df, fc, sel, monthly_filt, city_monthly,
                   hist_citywide>>

\* lines 323-383
D_Tab3 ==
    /\ prog = "dashboard" /\ pc = "d_tab3"
    /\ existChecked' = existChecked \cup {FORECAST_FILE}
    /\ IF ~FileExists(FORECAST_FILE)
       THEN /\ notFound' = notFound \cup {FORECAST_FILE}
            /\ pc' = "d_tab4"
            /\ UNCHANGED <<readAttempted, validated, err, fc, hist_citywide,
                           rendered>>
       ELSE /\ readAttempted' = readAttempted \cup {FORECAST_FILE}
            /\ notFound' = notFound
            /\ IF ~exists[FORECAST_FILE]
               THEN /\ err' = [kind |-> "FileNotFoundError", file |-> FORECAST_FILE,
                               cols |-> <<>>]
                    /\ pc' = "stopped"
                    /\ UNCHANGED <<validated, fc, hist_citywide, rendered>>
               ELSE \E t \in TablesOf(ForecastRequired, DashForecastRows, MaxDashRows) :
                    \E r \in load_forecast(t) :
                              /\ validated' = validated \cup {FORECAST_FILE}
                      /\ err' = r.err
                      /\ fc' = r.df
                      /\ IF r.ok
                         THEN /\ hist_citywide' = CitywideMonthly(monthly_df)
                              /\ rendered' = rendered \cup {"Forecast"}
                              /\ pc' = "d_tab4"
                         ELSE /\ pc' = "stopped"
                              /\ UNCHANGED <<hist_citywide, rendered>>
    /\ UNCHANGED <<prog, exists, outFile, readerSaw, builderVars, input, monthly_df,
                   hourly_df, sel, monthly_filt, city_monthly>>

\* lines 389-404
D_Tab4 ==
    /\ prog = "dashboard" /\ pc = "d_tab4"
    /\ rendered' = rendered \cup {"About"}
    /\ pc' = "done"
    /\ UNCHANGED <<prog, exists, outFile, readerSaw, fileVars, err, builderVars, input,
                   monthly_df, hourly_df, fc, sel, monthly_filt, city_monthly,
                   hist_citywide>>

DashboardNext ==
    \/ D_ExistenceChecks
    \/ D_LoadMonthly
    \/ D_LoadHourly
    \/ D_Sidebar
    \/ D_Tab1
    \/ D_Tab2
    \/ D_Tab3
    \/ D_Tab4

(***************************************************************************)
(* The loaders and the citywide series as functions of one table:           *)
(* input = [fn, table] is drawn in Init and the function is applied to it.  *)
(***************************************************************************)
L_LoadMonthly ==
    /\ prog = "load" /\ pc = "l_start" /\ input.fn = "load_monthly"
    /\ err' = load_monthly(input.table).err
    /\ monthly_df' = load_monthly(input.table).df
    /\ pc' = IF load_monthly(input.table).ok THEN "l_hist" ELSE "failed"
    /\ UNCHANGED <<prog, exists, outFile, readerSaw, fileVars, builderVars, input,
                   hourly_df, fc, sel, monthly_filt, city_monthly, hist_citywide,
                   rendered>>

\* hist_citywide, lines 340-344
L_HistCitywide ==
    /\ prog = "load" /\ pc = "l_hist"
    /\ hist_citywide' = CitywideMonthly(monthly_df)
    /\ pc' = "l_sidebar"
    /\ UNCHANGED <<prog, exists, outFile, readerSaw, fileVars, err, builderVars, input,
                   monthly_df, hourly_df, fc, sel, monthly_filt, city_monthly, rendered>>

\* the selection and monthly_filt, lines 125-182
L_Sidebar ==
    /\ prog = "load" /\ pc = "l_sidebar"
    /\ monthly_df # <<>>
    /\ \E s \in Selections(monthly_df, hourly_df) :
          /\ sel' = s
          /\ monthly_filt' = MonthlyFilt(monthly_df, s)
    /\ pc' = "l_tab1"
    /\ UNCHANGED <<prog, exists, outFile, readerSaw, fileVars, err, builderVars, input,
                   monthly_df, hourly_df, fc, city_monthly, hist_citywide, rendered>>

\* city_monthly, lines 235-242
L_CityMonthly ==
    /\ prog = "load" /\ pc = "l_tab1"
    /\ city_monthly' = IF Len(monthly_filt) = 0 THEN <<>>
                       ELSE CitywideMonthly(monthly_filt)
    /\ pc' = "done"
    /\ UNCHANGED <<prog, exists, outFile, readerSaw, fileVars, err, builderVars, input,
                   monthly_df, hourly_df, fc, sel, monthly_filt, hist_citywide, rendered>>

L_LoadHourly ==
    /\ prog = "load" /\ pc = "l_start" /\ input.fn = "load_hourly_weekday"
    /\ err' = load_hourly_weekday(input.table).err
    /\ hourly_df' = load_hourly_weekday(input.table).df
    /\ pc' = IF load_hourly_weekday(input.table).ok THEN "done" ELSE "failed"
    /\ UNCHANGED <<prog, exists, outFile, readerSaw, fileVars, builderVars, input,
                   monthly_df, fc, sel, monthly_filt, city_monthly, hist_citywide,
                   rendered>>

L_LoadForecast ==
    /\ prog = "load" /\ pc = "l_start" /\ input.fn = "load_forecast"
    /\ \E r \in load_forecast(input.table) :
          /\ err' = r.err
          /\ fc' = r.df
          /\ pc' = IF r.ok THEN "done" ELSE "failed"
    /\ UNCHANGED <<prog, exists, outFile, readerSaw, fileVars, builderVars, input,
                   monthly_df, hourly_df, sel, monthly_filt, city_monthly,
                   hist_citywide, rendered>>

LoadNext ==
    \/ L_LoadMonthly
    \/ L_HistCitywide
    \/ L_Sidebar
    \/ L_CityMonthly
    \/ L_LoadHourly
    \/ L_LoadForecast

(***************************************************************************)
(* Initial states                                                          *)
(***************************************************************************)
Blank ==
    /\ readerSaw = "none"
    /\ existChecked = {} /\ readAttempted = {} /\ validated = {} /\ notFound = {}
    /\ err = NoErr
    /\ df = [columns |-> {}, n |-> 0]
    /\ rawTime = <<>> /\ rawRows = <<>> /\ ym = <<>> /\ norm = <<>>
    /\ monthly_nbh_cat = <<>>
    /\ monthly_df = <<>> /\ hourly_df = <<>> /\ fc = <<>>
    /\ sel = <<>> /\ monthly_filt = <<>> /\ city_monthly = <<>>
    /\ hist_citywide = <<>> /\ rendered = {}

InitBuilder ==
    /\ prog = "builder" /\ pc = "b_exists"
    /\ exists \in [InputFiles -> BOOLEAN]
    /\ \A f \in InputFiles \ {INCIDENTS_FILE} : ~exists[f]
    /\ outFile \in {"absent", "old"}
    /\ input = <<>>
    /\ Blank

InitDashboard ==
    /\ prog = "dashboard" /\ pc = "d_exists"
    /\ exists \in [InputFiles -> BOOLEAN]
    /\ ~exists[INCIDENTS_FILE]
    /\ outFile = "absent"
    /\ input = <<>>
    /\ Blank

InitLoad ==
    /\ prog = "load" /\ pc = "l_start"
    /\ exists = [f \in InputFiles |-> TRUE]
    /\ outFile = "absent"
    /\ input \in
          [fn : {"load_monthly"}, table : TablesOf(MonthlyRequired, MonthlyRows, MaxLoadRows)]
          \cup [fn : {"load_hourly_weekday"},
                table : TablesOf(HourlyRequired, HourlyRows, MaxLoadRows)]
          \cup [fn : {"load_forecast"},
                table : TablesOf(ForecastRequired, ForecastRows, MaxLoadRows)]
    /\ Blank

Init == InitBuilder \/ InitDashboard

Next == BuilderNext \/ DashboardNext

Spec == Init /\ [][Next]_vars

SpecLoad == InitLoad /\ [][LoadNext]_vars

(***************************************************************************)
(* Properties                                                              *)
(***************************************************************************)
RequiredOf(fn) ==
    CASE fn = "load_monthly" -> MonthlyRequired
      [] fn = "load_hourly_weekday" -> HourlyRequired
      [] fn = "load_forecast" -> ForecastRequired

RECURSIVE SumOver(_, _)
SumOver(S, f) ==
    IF S = {} THEN 0
    ELSE LET x == CHOOSE y \in S : TRUE IN f[x] + SumOver(S \ {x}, f)

BuilderAggregated == prog = "builder" /\ pc \in {"b_write", "b_writing", "done"}

\* C1: whenever required columns have been checked, a missing-columns error is
\* raised exactly when a required column is absent, and it lists exactly the
\* absent required columns in sorted order (builder and the three loaders).
C1_MissingColumnsSorted ==
    /\ (prog = "builder" /\ INCIDENTS_FILE \in validated) =>
          LET missing == Range(BuilderRequired) \ df.columns IN
          IF missing # {}
          THEN err.kind = "MissingColumns" /\ err.cols = SortedNames(missing)
          ELSE err.kind # "MissingColumns"
    /\ (prog = "load" /\ pc # "l_start") =>
          LET missing == RequiredOf(input.fn) \ input.table.columns IN
          IF missing # {}
          THEN err.kind = "MissingColumns" /\ err.cols = SortedNames(missing)
          ELSE err.kind # "MissingColumns"

\* a citywide series agrees with the rows it was derived from: one row per month
\* of the rows, strictly increasing, each count the sum of that month's rows
SeriesAgrees(series, rows) ==
    /\ {series[p].month : p \in 1..Len(series)} = {r.month : r \in Range(rows)}
    /\ \A p, q \in 1..Len(series) :
          p < q => TsKey(series[p].month) < TsKey(series[q].month)
    /\ \A p \in 1..Len(series) :
          series[p].incidents =
             SumOver({i \in 1..Len(rows) : rows[i].month = series[p].month},
                     [i \in 1..Len(rows) |-> rows[i].incidents])

\* C2: hist_citywide and city_monthly hold, for each month of the table they are
\* derived from, exactly the sum of that month's rows, one row per month, in
\* strictly increasing month order.
C2_CitywideEqualsSum ==
    (prog = "load" /\ input.fn = "load_monthly") =>
       /\ pc \in {"l_sidebar", "l_tab1", "done"} => SeriesAgrees(hist_citywide, monthly_df)
       /\ pc = "done" => SeriesAgrees(city_monthly, monthly_filt)

C2_Witness ==
    /\ prog = "load" /\ pc = "done"
    /\ Len(monthly_df) = 3 /\ Len(monthly_filt) = 2
    /\ monthly_filt[1].neighborhood # monthly_filt[2].neighborhood
    /\ Len(hist_citywide) = 2
    /\ Len(city_monthly) = 1 /\ city_monthly[1].incidents = 3

\* the key tuple of input row i after coercion
CoercedKey(i) ==
    <<ym[i], ToInt64(rawRows[i].year), rawRows[i].neighborhood,
      rawRows[i].incident_category>>

KeyComplete(i) ==
    /\ ~ym[i].na
    /\ ~ToInt64(rawRows[i].year).na
    /\ rawRows[i].neighborhood # NA
    /\ rawRows[i].incident_category # NA

OutputKey(r) ==
    <<r.year_month, [na |-> FALSE, v |-> r.year], r.neighborhood, r.incident_category>>

\* C3: the aggregated table has exactly one row per key tuple carried by a
\* complete input row, counting the input rows with that tuple; no row counts
\* zero; a row whose time does not parse is dropped with no error, and the
\* counts add up to the input rows minus the dropped ones.
C3_ExactSparseCounts ==
    BuilderAggregated =>
       LET rows == 1..df.n
           kept == {i \in rows : KeyComplete(i)}
           out == monthly_nbh_cat
       IN  /\ err = NoErr
           /\ \A i \in rows : rawTime[i].text => i \notin kept
           /\ \A i \in kept :
                 \E p \in 1..Len(out) :
                    /\ OutputKey(out[p]) = CoercedKey(i)
                    /\ out[p].incidents =
                          Cardinality({j \in kept : CoercedKey(j) = CoercedKey(i)})
           /\ \A p \in 1..Len(out) :
                 /\ out[p].incidents > 0
                 /\ \E i \in kept : CoercedKey(i) = OutputKey(out[p])
           /\ \A p, q \in 1..Len(out) :
                 OutputKey(out[p]) = OutputKey(out[q]) => p = q
           /\ SumOver(1..Len(out), [p \in 1..Len(out) |-> out[p].incidents])
                 = df.n - Cardinality(rows \ kept)

C3_Witness ==
    /\ prog = "builder" /\ pc = "done"
    /\ df.n = 2
    /\ rawTime[1].text /\ ~rawTime[2].text
    /\ Len(monthly_nbh_cat) = 1 /\ monthly_nbh_cat[1].incidents = 1

\* C4: the month key of every row is the first of the month of the value in the
\* first existing column among year_month, month, incident_datetime; the
\* no-time-source error is raised only when none of the three exists.
C4_MonthKeyIsFirstOfMonth ==
    /\ (prog = "builder" /\ pc \in {"b_normalize", "b_aggregate", "b_write",
                                   "b_writing", "done"}) =>
          \A i \in 1..df.n : ym[i] = ToMonthStart(ToDatetime(rawTime[i]))
    /\ err.kind = "NoTimeSource" =>
          df.columns \cap {"year_month", "month", "incident_datetime"} = {}

\* C5: the rows of the written artifact are in non-decreasing lexicographic order
\* of (year_month, year, neighborhood, incident_category), year_month is
\* non-decreasing, and no two rows carry the same key tuple.
C5_SortedByFullKey ==
    BuilderAggregated =>
       \A p, q \in 1..Len(monthly_nbh_cat) :
          p < q =>
             /\ LexLess(GroupKey(monthly_nbh_cat[p]), GroupKey(monthly_nbh_cat[q]))
             /\ TsKey(monthly_nbh_cat[p].year_month) <= TsKey(monthly_nbh_cat[q].year_month)

\* C6: what sits under the final artifact name, and what a concurrent reader
\* finds there, is never a partially written table.
C6_NeverPartial ==
    /\ outFile \in {"absent", "old", "new"}
    /\ readerSaw \in {"none", "absent", "old", "new"}

\* C7 as stated: every returned forecast row has lower <= forecast <= upper, and
\* each row's month is the month right after the previous row's.
MonthIndex(t) == t.yr * 12 + t.mo

C7_BoundsAndContiguousMonths ==
    (prog = "load" /\ input.fn = "load_forecast" /\ pc = "done") =>
       /\ \A p \in 1..Len(fc) :
             /\ ~fc[p].lower.na /\ ~fc[p].forecast.na /\ ~fc[p].upper.na
             /\ fc[p].lower.v2 <= fc[p].forecast.v2
             /\ fc[p].forecast.v2 <= fc[p].upper.v2
       /\ \A p \in 1..(Len(fc) - 1) :
             MonthIndex(fc[p + 1].month) = MonthIndex(fc[p].month) + 1

\* C7 as amended: every returned forecast row has a month that parsed, months
\* are non-decreasing from row to row, and the rows are exactly the input rows
\* whose month parses, their forecast, lower and upper being the input cells
\* after numeric coercion.
C7_ParsedNonDecreasingMonths ==
    (prog = "load" /\ input.fn = "load_forecast" /\ pc = "done") =>
       LET raw == input.table.rows IN
       /\ \A p \in 1..Len(fc) : ~fc[p].month.na
       /\ \A p \in 1..(Len(fc) - 1) : TsKey(fc[p].month) <= TsKey(fc[p + 1].month)
       /\ \A p, q \in 1..Len(fc) : fc[p].idx = fc[q].idx => p = q
       /\ {fc[p].idx : p \in 1..Len(fc)} = {i \in 1..Len(raw) : ~raw[i].month.text}
       /\ \A p \in 1..Len(fc) :
             LET c == raw[fc[p].idx] IN
             /\ fc[p].month = ToDatetime(c.month)
             /\ fc[p].forecast = ToNumeric(c.forecast)
             /\ fc[p].lower = ToNumeric(c.lower)
             /\ fc[p].upper = ToNumeric(c.upper)

C7_Witness ==
    /\ prog = "load" /\ input.fn = "load_forecast" /\ pc = "done"
    /\ Len(input.table.rows) = 3 /\ Len(fc) = 2
    /\ fc[1].idx > fc[2].idx
    /\ MonthIndex(fc[2].month) = MonthIndex(fc[1].month) + 2
    /\ fc[1].lower.v2 > fc[1].forecast.v2
    /\ fc[2].forecast.na

\* C8: in a dashboard run that ended with an artifact missing or rejected, every
\* tab that does not depend on such an artifact has been rendered.
Tabs == {"Trends", "HourWeekday", "Forecast", "About"}

DependsOn(tab) ==
    CASE tab = "Trends" -> {MONTHLY_FILE}
      [] tab = "HourWeekday" -> {HOURLY_WEEKDAY_FILE}
      [] tab = "Forecast" -> {FORECAST_FILE, MONTHLY_FILE}
      [] tab = "About" -> {}

FailedArtifacts ==
    notFound \cup (IF err.kind \in {"MissingColumns", "FileNotFoundError"}
                   THEN {err.file} ELSE {})

C8_OnlyDependentTabDisabled ==
    (prog = "dashboard" /\ pc \in {"done", "stopped"} /\ FailedArtifacts # {}) =>
       \A tab \in Tabs : DependsOn(tab) \cap FailedArtifacts = {} => tab \in rendered

\* the hour of a raw cell after the coercion of line 68
CoercedHour(c) == AsInt(FillNa0(ToNumeric(c)))

\* C9: every returned hourly row has its hour in [0,23]; an input row whose
\* coerced hour is outside [0,23] is absent from the result, and one whose
\* coerced hour is inside is present once with that hour.
C9_HourOutOfRangeDropped ==
    (prog = "load" /\ input.fn = "load_hourly_weekday" /\ pc = "done") =>
       LET raw == input.table.rows IN
       /\ \A p \in 1..Len(hourly_df) : hourly_df[p].hour \in 0..23
       /\ \A i \in 1..Len(raw) :
             LET h == CoercedHour(raw[i].hour)
                 at == {p \in 1..Len(hourly_df) : hourly_df[p].idx = i}
             IN  IF h < 0 \/ h > 23
                 THEN at = {}
                 ELSE Cardinality(at) = 1 /\ \A p \in at : hourly_df[p].hour = h

C9_Witness ==
    /\ prog = "load" /\ input.fn = "load_hourly_weekday" /\ pc = "done"
    /\ Len(input.table.rows) = 3 /\ Len(hourly_df) = 1
    /\ input.table.rows[1].hour = RawInt(24)
    /\ input.table.rows[2].hour = RawInt(-1)
    /\ hourly_df[1].idx = 3 /\ hourly_df[1].hour = 23

\* C10: a file that does not exist is never read and never column-checked, no
\* missing-columns error names it, and once its existence has been tested it is
\* reported not found; every read follows the existence test of that file and
\* every column check follows the read.
C10_NotFoundBeforeValidation ==
    \A f \in InputFiles :
       /\ ~exists[f] =>
             /\ f \notin readAttempted
             /\ f \notin validated
             /\ ~(err.kind = "MissingColumns" /\ err.file = f)
             /\ f \in existChecked => f \in notFound
       /\ f \in readAttempted => f \in existChecked
       /\ f \in validated => f \in readAttempted

C10_Witness ==
    /\ prog = "dashboard" /\ pc = "done"
    /\ ~exists[FORECAST_FILE] /\ FORECAST_FILE \in notFound
    /\ {MONTHLY_FILE, HOURLY_WEEKDAY_FILE} \subseteq validated

====
